---------------------------- MODULE Spec2Model ----------------------------
(***************************************************************************)
(* Model of the visibility_attribute crate (src/src/lib.rs).               *)
(*                                                                         *)
(* set_visibility(input, annotated_item) hands its two token streams to    *)
(* inner_set_visibility, which moves `input` into out_stream and extends   *)
(* it with the iterator returned by remove_visibility(annotated_item).     *)
(* remove_visibility wraps the item in a Peekable and calls next_if twice: *)
(* once for the identifier `pub`, and, only when that matched, once for a  *)
(* group delimited by parentheses.                                         *)
(*                                                                         *)
(* Option<T> is modelled as a sequence of length at most one:              *)
(* None is << >> and Some(x) is << x >>.                                   *)
(***************************************************************************)
EXTENDS Naturals, Sequences, FiniteSets

VARIABLES
    input,           \* the attribute's argument tokens      (lib.rs:77, 87)
    annotated_item,  \* the annotated declaration's tokens   (lib.rs:78, 88)
    tt_iter,         \* the Peekable built at lib.rs:102
    out_stream,      \* the stream built at lib.rs:90-92
    rv_yield,        \* history: the tokens the iterator returned by
                     \* remove_visibility has yielded so far
    pc,              \* position in inner_set_visibility / remove_visibility
    hist             \* history: the calls completed before the current one

vars == <<input, annotated_item, tt_iter, out_stream, rv_yield, pc, hist>>

----------------------------------------------------------------------------
(* Bounds of the model.                                                    *)

\* longest annotated item of a single call
MaxItemLen == 3

\* longest annotated item of the first call of a chain of calls
ChainItemLen == 2

\* largest source-position shift between two calls on the same tokens
MaxShift == 1

----------------------------------------------------------------------------
(* Tokens: proc_macro::TokenTree.  A token has a kind; an Ident, Literal   *)
(* or Punct has a text, a Group has a delimiter and an inner stream.       *)
(* Every token carries a span (source-position metadata).                  *)

None == << >>

Some(x) == << x >>

Leaf(k, s) == [kind |-> k, text |-> s, delim |-> "NA", inner |-> << >>, span |-> 0]

Group(d, in) == [kind |-> "Group", text |-> "", delim |-> d, inner |-> in, span |-> 0]

IdPub == Leaf("Ident", "pub")

IdSuper == Leaf("Ident", "super")

Lit5 == Leaf("Literal", "5")

Bang == Leaf("Punct", "!")

\* the token kinds and shapes an item is built from (spans not yet set)
Tokens ==
    { IdPub, IdSuper, Lit5, Bang,
      Group("Parenthesis", << >>),
      Group("Parenthesis", << IdSuper >>),
      Group("Parenthesis", << Bang, IdPub >>),
      Group("Brace", << IdSuper >>),
      Group("Bracket", << >>),
      Group("None", << IdPub >>) }

\* the attribute arguments tried: the qualifiers of tests.rs and a
\* non-qualifier
Replacements ==
    { << >>,
      << IdPub >>,
      << IdPub, Group("Parenthesis", << IdSuper >>) >>,
      << Lit5 >> }

\* all token sequences of length at most n
ItemBodies(n) == UNION { [1..k -> Tokens] : k \in 0..n }

\* the lexer's spans: the token at index i of a stream starting after
\* `base` earlier tokens sits at source position base + i
WithSpans(s, base) == [i \in 1..Len(s) |-> [s[i] EXCEPT !.span = base + i]]

\* the same tokens met d source positions later
Shift(s, d) == [i \in 1..Len(s) |-> [s[i] EXCEPT !.span = @ + d]]

----------------------------------------------------------------------------
(* The iterator adapters used by remove_visibility.                        *)

\* an iterator that has not been built yet
NoIter == [iter |-> << >>, peeked |-> None]

\* input.into_iter().peekable()
Peekable(s) == [iter |-> s, peeked |-> None]

\* the underlying iterator's next(): <<item, rest>>
IterNext(s) ==
    IF s = << >>
    THEN [item |-> None, iter |-> << >>]
    ELSE [item |-> Some(Head(s)), iter |-> Tail(s)]

\* PeekableNext with the peeked slot forgotten: what next_if put back is lost
PeekableNextForgetsPeeked(p) ==
    LET r == IterNext(p.iter)
    IN  [item |-> r.item, it |-> [iter |-> r.iter, peeked |-> None]]

\* Peekable::next: the peeked slot is taken first
PeekableNext(p) ==
    IF p.peeked # None
    THEN [item |-> p.peeked[1], it |-> [p EXCEPT !.peeked = None]]
    ELSE LET r == IterNext(p.iter)
         IN  [item |-> r.item, it |-> [iter |-> r.iter, peeked |-> None]]

\* IsPubIdent accepting every identifier
IsAnyIdent(x) == x.kind = "Ident"

\* IsPubIdent comparing the whole token, source position included, with a
\* `pub` made at the first position
IsPubIdentAtFirstPosition(x) == x.kind = "Ident" /\ x.text = "pub" /\ x.span = 1

\* the closure of lib.rs:105-108
IsPubIdent(x) == x.kind = "Ident" /\ x.text = "pub"

\* IsParenGroup accepting every delimiter
IsAnyGroup(x) == x.kind = "Group"

\* IsParenGroup accepting only a group that holds a path
IsNonEmptyParenGroup(x) ==
    x.kind = "Group" /\ x.delim = "Parenthesis" /\ x.inner # << >>

\* the closure of lib.rs:114-117
IsParenGroup(x) == x.kind = "Group" /\ x.delim = "Parenthesis"

\* Peekable::next_if, its other arm: what next() returned (an item or the
\* end) goes back into the peeked slot and the result is None
PutBack(r) == [item |-> None, it |-> [r.it EXCEPT !.peeked = Some(r.item)]]

\* tt_iter.next_if(..) of lib.rs:104-108: the next item is taken and kept
\* when it is the identifier `pub`
NextIfPub(p) ==
    LET r == PeekableNext(p)
    IN  IF r.item # None /\ IsPubIdent(r.item[1]) THEN r ELSE PutBack(r)

\* tt_iter.next_if(..) of lib.rs:114-117: the next item is taken and kept
\* when it is a group in parentheses
NextIfParen(p) ==
    LET r == PeekableNext(p)
    IN  IF r.item # None /\ IsParenGroup(r.item[1]) THEN r ELSE PutBack(r)

----------------------------------------------------------------------------
(* One call of set_visibility.                                             *)

InitWith(n) ==
    /\ input \in { WithSpans(w, 0) : w \in Replacements }
    /\ annotated_item \in { WithSpans(b, Len(input)) : b \in ItemBodies(n) }
    /\ tt_iter = NoIter
    /\ out_stream = << >>
    /\ rv_yield = << >>
    /\ pc = "entry"
    /\ hist = << >>

Init == InitWith(MaxItemLen)

\* Enter starting from an empty stream in place of the input
EnterDropsInput ==
    /\ pc = "entry"
    /\ out_stream' = << >>
    /\ tt_iter' = Peekable(annotated_item)
    /\ pc' = "rv_first"
    /\ UNCHANGED <<input, annotated_item, rv_yield, hist>>

\* lib.rs:80, 90, 102: out_stream takes the input; remove_visibility is
\* entered and wraps the item
Enter ==
    /\ pc = "entry"
    /\ out_stream' = input
    /\ tt_iter' = Peekable(annotated_item)
    /\ pc' = "rv_first"
    /\ UNCHANGED <<input, annotated_item, rv_yield, hist>>

\* RvFirstNextIf written with next(): a first token that is no `pub` is
\* taken and not put back
RvFirstConsumes ==
    /\ pc = "rv_first"
    /\ LET r == PeekableNext(tt_iter)
       IN  /\ tt_iter' = r.it
           /\ pc' = IF r.item # None /\ IsPubIdent(r.item[1])
                    THEN "rv_second" ELSE "extend"
    /\ UNCHANGED <<input, annotated_item, out_stream, rv_yield, hist>>

\* lib.rs:104-112: the first next_if; no `pub` means the iterator is
\* returned at once
RvFirstNextIf ==
    /\ pc = "rv_first"
    /\ LET r == NextIfPub(tt_iter)
       IN  /\ tt_iter' = r.it
           /\ pc' = IF r.item = None THEN "extend" ELSE "rv_second"
    /\ UNCHANGED <<input, annotated_item, out_stream, rv_yield, hist>>

\* RvSecondNextIf written with next(): the token after `pub` is always taken
RvSecondTakesAny ==
    /\ pc = "rv_second"
    /\ tt_iter' = PeekableNext(tt_iter).it
    /\ pc' = "extend"
    /\ UNCHANGED <<input, annotated_item, out_stream, rv_yield, hist>>

\* RvSecondNextIf unwrapping the token after `pub`: a panic when `pub` is
\* the last token
RvSecondPanicsAtEnd ==
    /\ pc = "rv_second"
    /\ LET r == PeekableNext(tt_iter)
       IN  IF r.item = None
           THEN /\ pc' = "panicked"
                /\ tt_iter' = r.it
           ELSE /\ pc' = "extend"
                /\ tt_iter' = NextIfParen(tt_iter).it
    /\ UNCHANGED <<input, annotated_item, out_stream, rv_yield, hist>>

\* RvSecondNextIf as the body of a loop: after one qualifier the next is
\* looked for
RvSecondLoops ==
    /\ pc = "rv_second"
    /\ tt_iter' = NextIfParen(tt_iter).it
    /\ pc' = "rv_first"
    /\ UNCHANGED <<input, annotated_item, out_stream, rv_yield, hist>>

\* lib.rs:114-119: the second next_if, its result dropped; the iterator
\* is returned
RvSecondNextIf ==
    /\ pc = "rv_second"
    /\ tt_iter' = NextIfParen(tt_iter).it
    /\ pc' = "extend"
    /\ UNCHANGED <<input, annotated_item, out_stream, rv_yield, hist>>

\* lib.rs:91: extend takes one more token from the returned iterator
ExtendPush ==
    /\ pc = "extend"
    /\ LET r == PeekableNext(tt_iter)
       IN  /\ r.item # None
           /\ tt_iter' = r.it
           /\ out_stream' = Append(out_stream, r.item[1])
           /\ rv_yield' = Append(rv_yield, r.item[1])
    /\ UNCHANGED <<input, annotated_item, pc, hist>>

\* lib.rs:91-92: the iterator is exhausted; out_stream is returned
ExtendEnd ==
    /\ pc = "extend"
    /\ LET r == PeekableNext(tt_iter)
       IN  /\ r.item = None
           /\ tt_iter' = r.it
    /\ pc' = "done"
    /\ UNCHANGED <<input, annotated_item, out_stream, rv_yield, hist>>

Next ==
    \/ Enter
    \/ RvFirstNextIf
    \/ RvSecondNextIf
    \/ ExtendPush
    \/ ExtendEnd

Spec == Init /\ [][Next]_vars

\* a call, once made, runs to its end
FairSpec == Spec /\ WF_vars(Next)

----------------------------------------------------------------------------
(* Several calls.  The macro keeps no state between calls (each call gets  *)
(* fresh streams), so a later call is modelled by filing the finished call *)
(* in hist and entering again.  The later calls tried are: the macro       *)
(* applied to the output of the first call, the first call's tokens met at *)
(* other source positions, and the first call's item under the second      *)
(* call's argument.                                                        *)

\* the current call, as filed in hist when the next one begins
Cur == [input |-> input, item |-> annotated_item, out |-> out_stream, rv |-> rv_yield]

\* the calls that have returned
Calls == IF pc = "done" THEN Append(hist, Cur) ELSE hist

ChainInit == InitWith(ChainItemLen)

\* a new call on (new_input, new_item) after the current one returned
Reenter(new_input, new_item) ==
    /\ hist' = Append(hist, Cur)
    /\ input' = new_input
    /\ annotated_item' = new_item
    /\ tt_iter' = NoIter
    /\ out_stream' = << >>
    /\ rv_yield' = << >>
    /\ pc' = "entry"

\* the attribute applied, with argument v, to what the first call returned
RoundTripCall ==
    /\ pc = "done"
    /\ hist = << >>
    /\ \E v \in Replacements : Reenter(WithSpans(v, 0), out_stream)

\* the first call's tokens at source positions d further on
RespanCall ==
    /\ pc = "done"
    /\ hist = << >>
    /\ \E d \in 1..MaxShift : Reenter(Shift(input, d), Shift(annotated_item, d))

\* after a round trip: the second call's argument on the first call's item
DirectCall ==
    /\ pc = "done"
    /\ Len(hist) = 1
    /\ annotated_item = hist[1].out
    /\ Reenter(input, hist[1].item)

ChainNext ==
    \/ Next
    \/ RoundTripCall
    \/ RespanCall
    \/ DirectCall

ChainSpec == ChainInit /\ [][ChainNext]_vars

----------------------------------------------------------------------------
(* The vocabulary of the properties, stated on token sequences alone.      *)

\* x begins with the identifier `pub`
StartsWithPub(x) == Len(x) >= 1 /\ x[1].kind = "Ident" /\ x[1].text = "pub"

\* the token at index i of x exists and is a group in parentheses
HasParenAt(x, i) == Len(x) >= i /\ x[i].kind = "Group" /\ x[i].delim = "Parenthesis"

\* x without its first k tokens
Drop(x, k) == SubSeq(x, k + 1, Len(x))

\* the first k tokens of x
Take(x, k) == SubSeq(x, 1, k)

\* the length of the qualifier x begins with: `pub ( ... )`, `pub` or nothing
QualifierLen(x) ==
    IF ~StartsWithPub(x) THEN 0 ELSE IF HasParenAt(x, 2) THEN 2 ELSE 1

\* x without the qualifier it begins with
StripLeadingVisibility(x) == Drop(x, QualifierLen(x))

\* p is all of one qualifier: nothing, `pub`, or `pub ( ... )`
IsQualifier(p) == Len(p) <= 2 /\ QualifierLen(p) = Len(p)

\* x with the source positions forgotten
Erase(x) == [i \in 1..Len(x) |-> [x[i] EXCEPT !.span = 0]]

\* how many leading tokens of its item call c did not return
Stripped(c) == Len(c.input) + Len(c.item) - Len(c.out)

Done == pc = "done"

----------------------------------------------------------------------------
(* C1: a finished call returns the whole of its input, in order and        *)
(* unchanged, followed by what remove_visibility yielded for the item,     *)
(* which is the item without its leading qualifier.                        *)
C1_ReplacementThenStripped ==
    Done =>
        /\ out_stream = input \o rv_yield
        /\ out_stream = input \o StripLeadingVisibility(annotated_item)

\* a call whose input and item both begin with `pub` has returned
C1_Witness ==
    /\ Done
    /\ StartsWithPub(input)
    /\ StartsWithPub(annotated_item)
    /\ Len(annotated_item) = 3

----------------------------------------------------------------------------
(* C2 as stated: whenever call j ran on the output of call i, and call k   *)
(* ran on the item of call i with the input of call j, calls j and k       *)
(* returned the same stream.                                               *)
C2_RoundTripAsStated ==
    \A i, j, k \in DOMAIN Calls :
        ( /\ Calls[j].item = Calls[i].out
          /\ Calls[k].item = Calls[i].item
          /\ Calls[k].input = Calls[j].input )
        => Calls[j].out = Calls[k].out

\* the earlier input w and the stripped item s do not join into a longer
\* or a new qualifier
RoundTripSafe(w, s) ==
    /\ IsQualifier(w)
    /\ Len(w) = 0 => ~StartsWithPub(s)
    /\ Len(w) = 1 => ~HasParenAt(s, 1)

(* C2 amended: the round trip holds when the earlier input is a qualifier  *)
(* (nothing, `pub`, `pub ( ... )`) and the item, once stripped, does not   *)
(* continue it: after nothing it does not begin with `pub`, after a bare   *)
(* `pub` it does not begin with a group in parentheses.                    *)
C2_RoundTripOfQualifiers ==
    \A i, j, k \in DOMAIN Calls :
        ( /\ Calls[j].item = Calls[i].out
          /\ Calls[k].item = Calls[i].item
          /\ Calls[k].input = Calls[j].input
          /\ RoundTripSafe(Calls[i].input, Calls[i].rv) )
        => Calls[j].out = Calls[k].out

\* a round trip over `pub` replaced by `pub ( ... )` replaced again
C2_Witness ==
    /\ Len(Calls) = 3
    /\ Calls[2].item = Calls[1].out
    /\ Calls[3].item = Calls[1].item
    /\ Calls[3].input = Calls[2].input
    /\ Len(Calls[1].input) = 2
    /\ IsQualifier(Calls[1].input)
    /\ StartsWithPub(Calls[1].item)
    /\ Calls[2].input # << >>
    /\ Calls[2].out = Calls[3].out

----------------------------------------------------------------------------
(* C3 as stated: whenever call j ran on what remove_visibility yielded in  *)
(* call i, remove_visibility yielded the same again.                       *)
C3_IdempotentAsStated ==
    \A i, j \in DOMAIN Calls :
        Calls[j].item = Calls[i].rv => Calls[j].rv = Calls[i].rv

(* C3 amended: stripping a stripped sequence changes nothing when the      *)
(* stripped sequence does not itself begin with the identifier `pub`.      *)
C3_IdempotentUnlessPubRemains ==
    \A i, j \in DOMAIN Calls :
        ( /\ Calls[j].item = Calls[i].rv
          /\ ~StartsWithPub(Calls[i].rv) )
        => Calls[j].rv = Calls[i].rv

\* a qualifier was stripped, and the rest was stripped again
C3_Witness ==
    /\ Len(Calls) >= 2
    /\ Calls[2].item = Calls[1].rv
    /\ StartsWithPub(Calls[1].item)
    /\ Calls[1].rv # << >>
    /\ ~StartsWithPub(Calls[1].rv)

----------------------------------------------------------------------------
(* C4: when the item is a qualifier p (nothing, `pub` or `pub ( ... )`)    *)
(* followed by a body b that begins neither with `pub` nor with a group in *)
(* parentheses, remove_visibility yields b and the call returns the input  *)
(* followed by b.                                                          *)
C4_ReplacesExistingQualifier ==
    Done =>
        \A n \in 0..2 :
            ( /\ n <= Len(annotated_item)
              /\ IsQualifier(Take(annotated_item, n))
              /\ ~StartsWithPub(Drop(annotated_item, n))
              /\ ~HasParenAt(Drop(annotated_item, n), 1) )
            => /\ rv_yield = Drop(annotated_item, n)
               /\ out_stream = input \o Drop(annotated_item, n)

\* `pub ( ... )` before a body was replaced by a non-empty input
C4_Witness ==
    /\ Done
    /\ input # << >>
    /\ Len(annotated_item) = 3
    /\ IsQualifier(Take(annotated_item, 2))
    /\ ~StartsWithPub(Drop(annotated_item, 2))
    /\ ~HasParenAt(Drop(annotated_item, 2), 1)

----------------------------------------------------------------------------
(* C5: an item that does not begin with the identifier `pub` (the empty    *)
(* item included) is yielded whole, and the call returns the input         *)
(* followed by the item.                                                   *)
C5_NoOpWithoutPub ==
    (Done /\ ~StartsWithPub(annotated_item)) =>
        /\ rv_yield = annotated_item
        /\ out_stream = input \o annotated_item

\* an item beginning with another identifier, then `pub`, went through
C5_Witness ==
    /\ Done
    /\ Len(annotated_item) >= 2
    /\ annotated_item[1].kind = "Ident"
    /\ annotated_item[1].text # "pub"
    /\ StartsWithPub(Drop(annotated_item, 1))

----------------------------------------------------------------------------
(* C6: when the item begins with `pub` and a group in parentheses, both    *)
(* are removed, whatever the group holds.                                  *)
C6_ParenGroupAlwaysConsumed ==
    (Done /\ StartsWithPub(annotated_item) /\ HasParenAt(annotated_item, 2)) =>
        rv_yield = Drop(annotated_item, 2)

\* `pub` and a group of tokens that are no path were removed
C6_Witness ==
    /\ Done
    /\ StartsWithPub(annotated_item)
    /\ HasParenAt(annotated_item, 2)
    /\ Len(annotated_item[2].inner) = 2
    /\ annotated_item[2].inner[1].kind = "Punct"
    /\ Len(annotated_item) = 3

----------------------------------------------------------------------------
(* C7: when the item begins with `pub` and the next token is no group in   *)
(* parentheses (or there is none), exactly the `pub` is removed.           *)
C7_OnlyPubConsumed ==
    (Done /\ StartsWithPub(annotated_item) /\ ~HasParenAt(annotated_item, 2)) =>
        rv_yield = Drop(annotated_item, 1)

\* `pub {super}`: the group in braces stayed
C7_Witness ==
    /\ Done
    /\ StartsWithPub(annotated_item)
    /\ Len(annotated_item) >= 2
    /\ annotated_item[2].kind = "Group"
    /\ annotated_item[2].delim = "Brace"
    /\ rv_yield # << >>

----------------------------------------------------------------------------
(* C8: every call reaches its end, and only with a token sequence as its   *)
(* result; there is no other outcome.                                      *)
IsTokenSeq(x) ==
    /\ DOMAIN x = 1..Len(x)
    /\ \A i \in DOMAIN x : Erase(x)[i] \in Tokens

C8_Total == <>[](Done /\ IsTokenSeq(out_stream) /\ IsTokenSeq(rv_yield))

\* the call on an empty input and an empty item has returned
C8_Witness ==
    /\ Done
    /\ input = << >>
    /\ annotated_item = << >>

----------------------------------------------------------------------------
(* C9: what remove_visibility yields is the item without its first k       *)
(* tokens, k at most 2; k is 2 only for `pub` and a group in parentheses,  *)
(* and at least 1 only for `pub`.  Every other token, a later `pub` and    *)
(* the inside of every group included, is yielded as it was.               *)
C9_AtMostOneQualifier ==
    Done =>
        \E k \in 0..2 :
            /\ k <= Len(annotated_item)
            /\ rv_yield = Drop(annotated_item, k)
            /\ k = 2 => StartsWithPub(annotated_item) /\ HasParenAt(annotated_item, 2)
            /\ k >= 1 => StartsWithPub(annotated_item)

\* `pub ( ... ) pub`: the second `pub` stayed
C9_Witness ==
    /\ Done
    /\ Len(annotated_item) = 3
    /\ HasParenAt(annotated_item, 2)
    /\ Len(rv_yield) = 1
    /\ StartsWithPub(rv_yield)

----------------------------------------------------------------------------
(* C10: two calls whose inputs and items agree once the source positions   *)
(* are forgotten strip as many tokens and return streams that agree once   *)
(* the source positions are forgotten.                                     *)
C10_SpanAgnostic ==
    \A i, j \in DOMAIN Calls :
        ( /\ Erase(Calls[i].input) = Erase(Calls[j].input)
          /\ Erase(Calls[i].item) = Erase(Calls[j].item) )
        => /\ Stripped(Calls[i]) = Stripped(Calls[j])
           /\ Erase(Calls[i].out) = Erase(Calls[j].out)

\* the same `pub` item was met at two source positions
C10_Witness ==
    /\ Len(Calls) = 2
    /\ Erase(Calls[1].input) = Erase(Calls[2].input)
    /\ Erase(Calls[1].item) = Erase(Calls[2].item)
    /\ Calls[1].item # Calls[2].item
    /\ StartsWithPub(Calls[1].item)
    /\ Stripped(Calls[1]) >= 1

=============================================================================
